---- MODULE Spec2Model ----
(***************************************************************************)
(* Scan-and-report loop of the keyboard firmware (src/main.rs):            *)
(* iterate_lines, KeyMapping::mapping, the two key tables and the panic    *)
(* handler, together with the two free-running hardware timers and the     *)
(* key matrix they interact with.                                          *)
(***************************************************************************)
EXTENDS Integers, Sequences, FiniteSets, TLC

\* ------------------------------------------------------------------ bounds
\* Tick-timer boundaries after which the model stops the clock.
MaxTime == 42
\* Largest number of simultaneously closed key switches.
MaxPressed == 2
\* Matrix positions <<line, column>> whose switches the environment operates.
KeySites == { <<0, 0>>, <<2, 4>>, <<5, 5>> }

\* --------------------------------------------------------- program constants
NumLines == 6
NumCols == 6
\* A tick period of two milliseconds.
TickMicros_Slow == 4 * 500

TickMicros == 500
InputMicros == 10000
\* Tick periods per input period.
InputPeriodTicks == InputMicros \div TickMicros

Lines == 0 .. (NumLines - 1)
Cols == 0 .. (NumCols - 1)
Slots == 0 .. (NumLines * NumCols - 1)

NoEventIndicated == "NoEventIndicated"

\* ------------------------------------------------------------- key mapping
RIGHT_KEYS ==
  [ tag |-> "Right",
    table |-> << << "Keyboard6", "Keyboard7", "Keyboard8", "Keyboard9", "Keyboard0", "Minus" >>,
                 << "Y", "U", "I", "O", "P", "Backslash" >>,
                 << "H", "J", "K", "L", "Semicolon", "Apostrophe" >>,
                 << "N", "M", "Comma", "Dot", "ForwardSlash", "RightShift" >>,
                 << "ReturnEnter", "Space", "UpArrow", "DownArrow", NoEventIndicated, NoEventIndicated >>,
                 << "F2", "RightControl", "LeftBrace", "RightBrace", NoEventIndicated, NoEventIndicated >> >> ]

LEFT_KEYS ==
  [ tag |-> "Left",
    table |-> << << "Equal", "Keyboard1", "Keyboard2", "Keyboard3", "Keyboard4", "Keyboard5" >>,
                 << "Tab", "Q", "W", "E", "R", "T" >>,
                 << "Grave", "A", "S", "D", "F", "G" >>,
                 << "LeftShift", "Z", "X", "C", "V", "B" >>,
                 << NoEventIndicated, NoEventIndicated, "LeftArrow", "RightArrow", "DeleteBackspace", "LeftControl" >>,
                 << NoEventIndicated, NoEventIndicated, "DeleteForward", "End", "Escape", "LeftAlt" >> >> ]

\* KeyMapping::Other carries no table.
OTHER_KEYS == [ tag |-> "Other", table |-> << >> ]

KeyMapping == { LEFT_KEYS, RIGHT_KEYS, OTHER_KEYS }

\* Rust arrays are indexed from 0, TLA+ tuples from 1.
Index(table, i, j) == table[i + 1][j + 1]

\* The mirrored table indexed without the column inversion.
mapping_NoMirror(self, line, column) ==
  CASE self.tag = "Left" -> Index(self.table, line, column)
    [] self.tag = "Right" -> Index(self.table, line, column)
    [] self.tag = "Other" -> NoEventIndicated

\* The primary table indexed column-first.
mapping_Transposed(self, line, column) ==
  CASE self.tag = "Left" -> Index(self.table, line, 5 - column)
    [] self.tag = "Right" -> Index(self.table, column, line)
    [] self.tag = "Other" -> NoEventIndicated

\* The table-less variant answering with an error usage.
mapping_OtherRollOver(self, line, column) ==
  CASE self.tag = "Left" -> Index(self.table, line, 5 - column)
    [] self.tag = "Right" -> Index(self.table, line, column)
    [] self.tag = "Other" -> "ErrorRollOver"

mapping(self, line, column) ==
  CASE self.tag = "Left" -> Index(self.table, line, 5 - column)
    [] self.tag = "Right" -> Index(self.table, line, column)
    [] self.tag = "Other" -> NoEventIndicated

\* The commented-out alternative of line 195.
ActiveKeys_Left == LEFT_KEYS

\* The table the scan loop asks (line 196).
ActiveKeys == RIGHT_KEYS

\* ------------------------------------------------------------------- state
VARIABLES
  pc,             \* position of the single thread of control in iterate_lines
  line_index,     \* index of the line of the outer for loop
  lines,          \* level driven on each of the six open-drain line pins
  keys_pressed,   \* the 36-slot snapshot of the current pass
  tick_flag,      \* update flag of tick_timer (TIM3): a boundary is pending
  input_flag,     \* update flag of input_timer (TIM2)
  now,            \* tick-timer boundaries elapsed since tick_timer.start
  input_elapsed,  \* input-timer boundaries elapsed since input_timer.start
  closed,         \* key switches currently closed
  write_result,   \* what the most recent write_report call returned
  tick_result,    \* what tick returned in this iteration
  poll_result,    \* what poll returned in this iteration
  read_result,    \* what read_report returned in this iteration
  scanned,        \* lines whose columns were sampled in this iteration, in order
  samples,        \* positions read low in this iteration
  steady,         \* no switch has changed since this iteration began
  ops,            \* transport calls made in this iteration, in order
  reports,        \* write_report calls made so far
  tick_waits,     \* completed waits on tick_timer in this iteration
  input_waits,    \* completed waits on input_timer in this iteration
  written,        \* how often each slot was assigned in this iteration
  dwelt,          \* a tick boundary has elapsed since the low line was asserted
  wrap,           \* the clock and the counters are kept modulo one input period
  m_self, m_line, m_column, m_key  \* one call of KeyMapping::mapping

loopVars == << pc, line_index, lines, keys_pressed, write_result, tick_result,
               poll_result, read_result, scanned, samples, ops, reports,
               tick_waits, input_waits, written >>
timerVars == << tick_flag, input_flag, now, input_elapsed, dwelt >>
envVars == << closed, steady >>
mapVars == << m_self, m_line, m_column, m_key >>
vars == << loopVars, timerVars, envVars, mapVars, wrap >>

\* UsbHidError as returned by write_report and tick, plus success.
HidResults == { "Ok", "WouldBlock", "Duplicate", "UsbError", "SerializationError" }
\* UsbError as returned by read_report, plus success.
ReadResults == { "Ok", "WouldBlock", "ParseError" }

NoKeys == [ i \in Slots |-> NoEventIndicated ]

\* A pull-up column reads low when a closed switch ties it to a line driven low.
is_low(col) == \E l \in Lines : lines[l] = "low" /\ << l, col >> \in closed

InitLoop ==
  /\ pc = "loop"
  /\ line_index = 0
  /\ lines = [ l \in Lines |-> "high" ]
  /\ keys_pressed = NoKeys
  /\ tick_flag = FALSE
  /\ input_flag = FALSE
  /\ now = 0
  /\ input_elapsed = 0
  /\ write_result = "None"
  /\ tick_result = "None"
  /\ poll_result = "None"
  /\ read_result = "None"
  /\ scanned = << >>
  /\ samples = {}
  /\ steady = TRUE
  /\ ops = << >>
  /\ reports = 0
  /\ tick_waits = 0
  /\ input_waits = 0
  /\ written = [ i \in Slots |-> 0 ]
  /\ dwelt = FALSE

Init ==
  /\ InitLoop
  /\ wrap = FALSE
  /\ closed \in { s \in SUBSET KeySites : Cardinality(s) <= MaxPressed }
  /\ m_self = ActiveKeys
  /\ m_line = 0
  /\ m_column = 0
  /\ m_key = "Unset"

\* ----------------------------------------------------------- the scan loop
\* loop { let mut keys_pressed = [NoEventIndicated; 36]; for ... in lines
BeginIteration ==
  /\ pc = "loop"
  /\ keys_pressed' = NoKeys
  /\ line_index' = 0
  /\ pc' = "set_low"
  /\ tick_result' = "None"
  /\ poll_result' = "None"
  /\ read_result' = "None"
  /\ scanned' = << >>
  /\ samples' = {}
  /\ ops' = << >>
  /\ tick_waits' = 0
  /\ input_waits' = 0
  /\ written' = [ i \in Slots |-> 0 ]
  /\ steady' = TRUE
  /\ UNCHANGED << lines, write_result, reports, timerVars, closed, mapVars, wrap >>

\* line.set_low()
SetLow ==
  /\ pc = "set_low"
  /\ lines' = [ lines EXCEPT ![line_index] = "low" ]
  /\ pc' = "settle"
  /\ dwelt' = FALSE
  /\ UNCHANGED << line_index, keys_pressed, write_result, tick_result, poll_result,
                  read_result, scanned, samples, ops, reports, tick_waits, input_waits, written,
                  tick_flag, input_flag, now, input_elapsed, envVars, mapVars, wrap >>

\* nb::block!(tick_timer.wait()) inside the sweep
SettleWait ==
  /\ pc = "settle"
  /\ tick_flag
  /\ tick_flag' = FALSE
  /\ pc' = "sample"
  /\ tick_waits' = tick_waits + 1
  /\ UNCHANGED << line_index, lines, keys_pressed, write_result, tick_result, poll_result,
                  read_result, scanned, samples, ops, reports, input_waits, written,
                  input_flag, now, input_elapsed, dwelt, envVars, mapVars, wrap >>

\* The slot index computed with a stride of five.
slot_FiveStride(col_index, line) == (col_index * 5) + line

\* The slot index computed line-major.
slot_Transposed(col_index, line) == (line * 6) + col_index

slot(col_index, line) == (col_index * 6) + line

\* The key recorded whatever the column reads.
sample_IgnoresLevel(col_index) == mapping(ActiveKeys, line_index, col_index)

\* The column test inverted.
sample_Inverted(col_index) ==
  IF ~is_low(col_index) THEN mapping(ActiveKeys, line_index, col_index)
                        ELSE NoEventIndicated

\* The value written for one column of the line being scanned.
sample(col_index) ==
  IF is_low(col_index) THEN mapping(ActiveKeys, line_index, col_index)
                       ELSE NoEventIndicated

\* for (col_index, col) in cols.iter().enumerate() { keys_pressed[..] = .. }
SampleColumns ==
  /\ pc = "sample"
  /\ keys_pressed' =
       [ i \in Slots |->
           IF \E c \in Cols : slot(c, line_index) = i
             THEN sample(CHOOSE c \in Cols : slot(c, line_index) = i)
             ELSE keys_pressed[i] ]
  /\ scanned' = Append(scanned, line_index)
  /\ samples' = samples \cup { << line_index, c >> : c \in { k \in Cols : is_low(k) } }
  /\ written' = [ i \in Slots |->
                    written[i] + Cardinality({ c \in Cols : slot(c, line_index) = i }) ]
  /\ pc' = IF \A c \in Cols : slot(c, line_index) \in Slots THEN "set_high" ELSE "halted"
  /\ UNCHANGED << line_index, lines, write_result, tick_result, poll_result,
                  read_result, ops, reports, tick_waits, input_waits,
                  timerVars, envVars, mapVars, wrap >>

\* The line left asserted at the end of its turn.
SetHigh_StaysLow ==
  /\ pc = "set_high"
  /\ lines' = lines
  /\ line_index' = line_index + 1
  /\ pc' = IF line_index + 1 < NumLines THEN "set_low" ELSE "input_wait"
  /\ dwelt' = FALSE
  /\ UNCHANGED << keys_pressed, write_result, tick_result, poll_result,
                  read_result, scanned, samples, ops, reports, tick_waits, input_waits, written,
                  tick_flag, input_flag, now, input_elapsed, envVars, mapVars, wrap >>

\* The for loop leaving one line early.
SetHigh_OffByOne ==
  /\ pc = "set_high"
  /\ lines' = [ lines EXCEPT ![line_index] = "high" ]
  /\ line_index' = line_index + 1
  /\ pc' = IF line_index + 1 < NumLines - 1 THEN "set_low" ELSE "input_wait"
  /\ dwelt' = FALSE
  /\ UNCHANGED << keys_pressed, write_result, tick_result, poll_result,
                  read_result, scanned, samples, ops, reports, tick_waits, input_waits, written,
                  tick_flag, input_flag, now, input_elapsed, envVars, mapVars, wrap >>

\* line.set_high(), then the next line or the end of the for loop
SetHigh ==
  /\ pc = "set_high"
  /\ lines' = [ lines EXCEPT ![line_index] = "high" ]
  /\ line_index' = line_index + 1
  /\ pc' = IF line_index + 1 < NumLines THEN "set_low" ELSE "input_wait"
  /\ dwelt' = FALSE
  /\ UNCHANGED << keys_pressed, write_result, tick_result, poll_result,
                  read_result, scanned, samples, ops, reports, tick_waits, input_waits, written,
                  tick_flag, input_flag, now, input_elapsed, envVars, mapVars, wrap >>

\* The input timer asked once without blocking on it.
InputWait_NoBlock ==
  /\ pc = "input_wait"
  /\ input_flag' = FALSE
  /\ pc' = "write"
  /\ input_waits' = input_waits + 1
  /\ UNCHANGED << line_index, lines, keys_pressed, write_result, tick_result, poll_result,
                  read_result, scanned, samples, ops, reports, tick_waits, written,
                  tick_flag, now, input_elapsed, dwelt, envVars, mapVars, wrap >>

\* nb::block!(input_timer.wait())
InputWait ==
  /\ pc = "input_wait"
  /\ input_flag
  /\ input_flag' = FALSE
  /\ pc' = "write"
  /\ input_waits' = input_waits + 1
  /\ UNCHANGED << line_index, lines, keys_pressed, write_result, tick_result, poll_result,
                  read_result, scanned, samples, ops, reports, tick_waits, written,
                  tick_flag, now, input_elapsed, dwelt, envVars, mapVars, wrap >>

\* Every error arm of the match absorbed.
WriteFatal_Never(r) == FALSE

\* The WouldBlock and Duplicate arms missing from the match.
WriteFatal_OnlyOk(r) == r # "Ok"

WriteFatal(r) == r \notin { "WouldBlock", "Duplicate", "Ok" }

\* match keyboard.interface().write_report(&keys_pressed)
WriteReport ==
  /\ pc = "write"
  /\ \E r \in HidResults :
       /\ write_result' = r
       /\ pc' = IF WriteFatal(r) THEN "halted" ELSE "tick_wait"
  /\ ops' = Append(ops, "write_report")
  /\ reports' = IF wrap THEN reports ELSE reports + 1
  /\ UNCHANGED << line_index, lines, keys_pressed, tick_result, poll_result,
                  read_result, scanned, samples, tick_waits, input_waits, written,
                  timerVars, envVars, mapVars, wrap >>

\* The wait after the report made on input_timer.
TickWait_OnInputTimer ==
  /\ pc = "tick_wait"
  /\ input_flag
  /\ input_flag' = FALSE
  /\ pc' = "tick"
  /\ input_waits' = input_waits + 1
  /\ UNCHANGED << line_index, lines, keys_pressed, write_result, tick_result, poll_result,
                  read_result, scanned, samples, ops, reports, tick_waits, written,
                  tick_flag, now, input_elapsed, dwelt, envVars, mapVars, wrap >>

\* nb::block!(tick_timer.wait()) after the report
TickWait ==
  /\ pc = "tick_wait"
  /\ tick_flag
  /\ tick_flag' = FALSE
  /\ pc' = "tick"
  /\ tick_waits' = tick_waits + 1
  /\ UNCHANGED << line_index, lines, keys_pressed, write_result, tick_result, poll_result,
                  read_result, scanned, samples, ops, reports, input_waits, written,
                  input_flag, now, input_elapsed, dwelt, envVars, mapVars, wrap >>

\* A Duplicate arm added to the match on tick, as in the match on write_report.
TickFatal_DuplicateAbsorbed(r) == r \notin { "Ok", "WouldBlock", "Duplicate" }

\* The WouldBlock arm missing from the match on tick.
TickFatal_OnlyOk(r) == r # "Ok"

TickFatal(r) == r \notin { "Ok", "WouldBlock" }

\* match keyboard.interface().tick()
Tick ==
  /\ pc = "tick"
  /\ \E r \in HidResults :
       /\ tick_result' = r
       /\ pc' = IF TickFatal(r) THEN "halted" ELSE "poll"
  /\ ops' = Append(ops, "tick")
  /\ UNCHANGED << line_index, lines, keys_pressed, write_result, poll_result,
                  read_result, scanned, samples, reports, tick_waits, input_waits, written,
                  timerVars, envVars, mapVars, wrap >>

\* if usb_dev.poll(&mut [&mut keyboard])
Poll ==
  /\ pc = "poll"
  /\ \E b \in BOOLEAN :
       /\ poll_result' = IF b THEN "true" ELSE "false"
       /\ pc' = IF b THEN "read" ELSE "loop"
  /\ ops' = Append(ops, "poll")
  /\ UNCHANGED << line_index, lines, keys_pressed, write_result, tick_result,
                  read_result, scanned, samples, reports, tick_waits, input_waits, written,
                  timerVars, envVars, mapVars, wrap >>

\* The catch-all arm of the match on read_report panicking instead of logging.
ReadReport_PanicsOnError ==
  /\ pc = "read"
  /\ \E r \in ReadResults :
       /\ read_result' = r
       /\ pc' = IF r \in { "Ok", "WouldBlock" } THEN "loop" ELSE "halted"
  /\ ops' = Append(ops, "read_report")
  /\ UNCHANGED << line_index, lines, keys_pressed, write_result, tick_result,
                  poll_result, scanned, samples, reports, tick_waits, input_waits, written,
                  timerVars, envVars, mapVars, wrap >>

\* match keyboard.interface().read_report(): every arm falls through
ReadReport ==
  /\ pc = "read"
  /\ \E r \in ReadResults : read_result' = r
  /\ pc' = "loop"
  /\ ops' = Append(ops, "read_report")
  /\ UNCHANGED << line_index, lines, keys_pressed, write_result, tick_result,
                  poll_result, scanned, samples, reports, tick_waits, input_waits, written,
                  timerVars, envVars, mapVars, wrap >>

\* the panic handler: rprintln, then loop {}
panic ==
  /\ pc = "halted"
  /\ UNCHANGED vars

\* ------------------------------------------------------------- environment
\* input_timer was started first, so its boundary comes just before the
\* tick boundary it coincides with.
InputDue == (now + 1) % InputPeriodTicks = 0 /\ input_elapsed < (now + 1) \div InputPeriodTicks

InputBoundary ==
  /\ wrap \/ now < MaxTime
  /\ InputDue
  /\ input_flag' = TRUE
  /\ input_elapsed' = input_elapsed + 1
  /\ UNCHANGED << loopVars, tick_flag, now, dwelt, envVars, mapVars, wrap >>

\* tick_timer started as a single countdown that is never reloaded.
TickBoundary_OneShot ==
  /\ now < 1
  /\ ~InputDue
  /\ tick_flag' = TRUE
  /\ now' = now + 1
  /\ dwelt' = \E l \in Lines : lines[l] = "low"
  /\ UNCHANGED << loopVars, input_flag, input_elapsed, envVars, mapVars, wrap >>

TickBoundary ==
  /\ wrap \/ now < MaxTime
  /\ ~InputDue
  /\ tick_flag' = TRUE
  /\ now' = IF wrap THEN (now + 1) % InputPeriodTicks ELSE now + 1
  /\ input_elapsed' = IF wrap /\ (now + 1) % InputPeriodTicks = 0 THEN 0 ELSE input_elapsed
  /\ dwelt' = \E l \in Lines : lines[l] = "low"
  /\ UNCHANGED << loopVars, input_flag, envVars, mapVars, wrap >>

\* A key switch closes or opens.
KeyChange ==
  /\ \E site \in KeySites :
       /\ closed' = IF site \in closed THEN closed \ { site } ELSE closed \cup { site }
       /\ Cardinality(closed') <= MaxPressed
  /\ steady' = FALSE
  /\ UNCHANGED << loopVars, timerVars, mapVars, wrap >>

Next ==
  \/ BeginIteration
  \/ SetLow
  \/ SettleWait
  \/ SampleColumns
  \/ SetHigh
  \/ InputWait
  \/ WriteReport
  \/ TickWait
  \/ Tick
  \/ Poll
  \/ ReadReport
  \/ panic
  \/ InputBoundary
  \/ TickBoundary
  \/ KeyChange

Spec == Init /\ [][Next]_vars

\* One step of the thread of control of iterate_lines.
LoopStep ==
  \/ BeginIteration
  \/ SetLow
  \/ SettleWait
  \/ SampleColumns
  \/ SetHigh
  \/ InputWait
  \/ WriteReport
  \/ TickWait
  \/ Tick
  \/ Poll
  \/ ReadReport

\* ------------------------------------------------ the loop running for ever
\* The same program with the clock and the counters kept modulo one input
\* period, the processor always executing the next step and both timers
\* always reaching their next boundary.  The switches are held as they were
\* at start: the control flow does not depend on what is sampled.
InitLive ==
  /\ InitLoop
  /\ wrap = TRUE
  /\ closed \in { s \in SUBSET KeySites : Cardinality(s) <= MaxPressed }
  /\ m_self = ActiveKeys
  /\ m_line = 0
  /\ m_column = 0
  /\ m_key = "Unset"

NextLive ==
  \/ LoopStep
  \/ panic
  \/ InputBoundary
  \/ TickBoundary

SpecLive ==
  /\ InitLive
  /\ [][NextLive]_vars
  /\ WF_vars(LoopStep)
  /\ WF_vars(TickBoundary)
  /\ WF_vars(InputBoundary)

\* --------------------------------------------------- compute time of zero
\* The thread of control is blocked in a timer wait, or spinning in the
\* panic handler.
Waiting ==
  \/ pc \in { "settle", "tick_wait" } /\ ~tick_flag
  \/ pc = "input_wait" /\ ~input_flag
  \/ pc = "halted"

\* Time passes only while the program waits.
EagerInputBoundary == Waiting /\ InputBoundary

EagerTickBoundary == Waiting /\ TickBoundary

NextEager ==
  \/ LoopStep
  \/ panic
  \/ EagerInputBoundary
  \/ EagerTickBoundary
  \/ KeyChange

SpecEager == Init /\ [][NextEager]_vars

\* ------------------------------------------- KeyMapping::mapping on its own
InitMapping ==
  /\ InitLoop
  /\ wrap = FALSE
  /\ closed = {}
  /\ m_self \in KeyMapping
  /\ m_line \in Lines
  /\ m_column \in Cols
  /\ m_key = "Unset"

\* let key = m_self.mapping(m_line, m_column)
CallMapping ==
  /\ m_key = "Unset"
  /\ m_key' = mapping(m_self, m_line, m_column)
  /\ UNCHANGED << loopVars, timerVars, envVars, m_self, m_line, m_column, wrap >>

NextMapping == CallMapping

SpecMapping == InitMapping /\ [][NextMapping]_vars

\* ============================================================== properties
Transient == { "WouldBlock", "Duplicate" }
AllLines == << 0, 1, 2, 3, 4, 5 >>
AllOps == << "write_report", "tick", "poll", "read_report" >>
IsPrefix(s, t) == Len(s) <= Len(t) /\ \A i \in 1 .. Len(s) : s[i] = t[i]

\* The snapshot a set of low samples stands for, read off the primary table.
SnapshotOf(S) ==
  [ i \in Slots |->
      IF \E p \in S : p[2] * 6 + p[1] = i
        THEN LET p == CHOOSE q \in S : q[2] * 6 + q[1] = i
             IN RIGHT_KEYS.table[p[1] + 1][p[2] + 1]
        ELSE NoEventIndicated ]

NonEmptySlots == { i \in Slots : keys_pressed[i] # NoEventIndicated }

\* The program at the call of write_report after a sweep during which no
\* switch moved.
SteadyWrite == pc = "write" /\ steady

\* C1: a write_report error other than WouldBlock or Duplicate puts the
\* program in the halted state, and from there no step of the loop is ever
\* taken again: no transport call, no line change, no column sample and no
\* timer wait (a pending timer flag is never consumed).
C1_FatalWriteHalts ==
  /\ []((write_result \notin { "None", "Ok", "WouldBlock", "Duplicate" }) => pc = "halted")
  /\ [][pc = "halted" =>
          /\ pc' = "halted"
          /\ UNCHANGED loopVars
          /\ (tick_flag => tick_flag')
          /\ (input_flag => input_flag')]_vars

\* C1 witness: halted by a fatal write_report in the first iteration, with a
\* whole further input period elapsed and both timers pending unserved.
C1_Witness ==
  /\ pc = "halted"
  /\ write_result = "UsbError"
  /\ reports = 1
  /\ input_elapsed = 2
  /\ tick_flag
  /\ input_flag

\* C2: a WouldBlock or Duplicate from write_report does not halt: control
\* passes to the tick-timer wait with the scan state untouched, the tick and
\* (the tick not failing) the poll follow in that iteration, and the next
\* write_report comes after a full sweep with the snapshot of that sweep.
C2_TransientWriteContinues ==
  /\ [][(pc = "write" /\ pc' # "write" /\ write_result' \in Transient) =>
          /\ pc' = "tick_wait"
          /\ UNCHANGED << line_index, lines, keys_pressed, scanned, samples, timerVars >>]_vars
  /\ []((ops # << >> /\ write_result \in Transient) =>
          \/ pc \in { "tick_wait", "tick", "poll", "read", "loop" }
          \/ pc = "halted" /\ tick_result \notin { "None", "Ok", "WouldBlock" })
  /\ []((pc \in { "poll", "read", "loop" } /\ ops # << >>) => IsPrefix(<< "write_report", "tick" >>, ops))
  /\ []((pc = "write" /\ write_result \in Transient) =>
          /\ ops = << >>
          /\ scanned = AllLines
          /\ keys_pressed = SnapshotOf(samples))

\* C2 witness: the write_report after one that returned WouldBlock, about to
\* be called with a snapshot holding the key at (2, 4) sampled in this sweep.
C2_Witness ==
  /\ pc = "write"
  /\ write_result = "WouldBlock"
  /\ reports = 1
  /\ samples = { << 2, 4 >> }
  /\ keys_pressed[26] = "Semicolon"

\* C3: write_report is entered only from a completed wait on the input
\* timer, and the number of write_report calls never exceeds the number of
\* input-timer boundaries elapsed, whatever the matrix does meanwhile.
C3_ReportAfterInputBoundary ==
  /\ [](reports <= input_elapsed)
  /\ [][(pc' = "write" /\ pc # "write") =>
          (pc = "input_wait" /\ input_flag /\ ~input_flag')]_vars
  /\ [][reports' # reports => (pc = "write" /\ reports' = reports + 1)]_vars

\* C3 witness: two reports after two input boundaries, the matrix having
\* changed during the second sweep.
C3_Witness ==
  /\ reports = 2
  /\ input_elapsed = 2
  /\ ~steady
  /\ samples # {}

\* C4: in every iteration the six lines are swept in the order 0..5 and
\* completely before write_report; the transport calls come in the order
\* write_report, tick, poll, read_report; a sweep is never restarted before
\* the iteration reached the poll.
C4_StepOrder ==
  /\ [](IsPrefix(scanned, AllLines))
  /\ [](IsPrefix(ops, AllOps))
  /\ []((ops # << >> \/ pc \in { "input_wait", "write" }) => scanned = AllLines)
  /\ [][(scanned # << >> /\ scanned' = << >>) =>
          (scanned = AllLines /\ ops \in { << "write_report", "tick", "poll" >>, AllOps })]_vars

\* C4 witness: an iteration that made all four transport calls.
C4_Witness == ops = AllOps /\ scanned = AllLines /\ pc = "loop"

\* C5: with one switch closed for the whole sweep, the snapshot handed to
\* write_report holds the key of that position at slot column*6+line and
\* no-event elsewhere; for (2, 4) that is Semicolon at slot 26.
C5_SingleClosure ==
  \A site \in KeySites :
    (SteadyWrite /\ closed = { site }) =>
      /\ keys_pressed =
           [ i \in Slots |-> IF i = site[2] * 6 + site[1]
                               THEN RIGHT_KEYS.table[site[1] + 1][site[2] + 1]
                               ELSE NoEventIndicated ]
      /\ (site = << 2, 4 >> => keys_pressed[26] = "Semicolon")

\* C5 witness: the switch at (2, 4) held through a sweep.
C5_Witness == SteadyWrite /\ closed = { << 2, 4 >> } /\ keys_pressed[26] = "Semicolon"

\* C6 as stated: with (0,0) and (5,5) closed for the whole sweep, exactly
\* the slots 0 and 35 differ from no-event.
C6_TwoClosuresTwoSlots ==
  (SteadyWrite /\ closed = { << 0, 0 >>, << 5, 5 >> }) => NonEmptySlots = { 0, 35 }

\* C6 amended: with (0,0) and (5,5) closed for the whole sweep, slot 0 holds
\* the key of (0,0), Keyboard6, slot 35 holds the key of (5,5), which the
\* table in use leaves at no-event, and all other slots hold no-event: slot
\* 0 is the only one that differs from no-event.
C6_TwoClosuresAmended ==
  (SteadyWrite /\ closed = { << 0, 0 >>, << 5, 5 >> }) =>
    /\ keys_pressed[0] = "Keyboard6"
    /\ keys_pressed[35] = NoEventIndicated
    /\ NonEmptySlots = { 0 }

\* C6 witness: both switches held through a sweep in which both were sampled.
C6_Witness ==
  /\ SteadyWrite
  /\ closed = { << 0, 0 >>, << 5, 5 >> }
  /\ samples = { << 0, 0 >>, << 5, 5 >> }

\* C7: the mirrored table answers table[line][5 - column], and 5 - column
\* is a column index.
C7_MirroredMapping ==
  (m_self.tag = "Left" /\ m_key # "Unset") =>
    /\ (5 - m_column) \in Cols
    /\ m_key = LEFT_KEYS.table[m_line + 1][(5 - m_column) + 1]

\* C7 witness: LEFT_KEYS asked for (2, 4) answers A, the key at table[2][1].
C7_Witness == m_self = LEFT_KEYS /\ m_line = 2 /\ m_column = 4 /\ m_key = "A"

\* C8: the primary table answers table[line][column].
C8_PrimaryMapping ==
  (m_self.tag = "Right" /\ m_key # "Unset") =>
    m_key = RIGHT_KEYS.table[m_line + 1][m_column + 1]

\* C8 witness: RIGHT_KEYS asked for (2, 4) answers Semicolon.
C8_Witness == m_self = RIGHT_KEYS /\ m_line = 2 /\ m_column = 4 /\ m_key = "Semicolon"

\* C9: the table-less variant answers no-event for every position.
C9_NoneMapping ==
  (m_self.tag = "Other" /\ m_key # "Unset") => m_key = NoEventIndicated

\* C9 witness: the table-less variant asked for (5, 5).
C9_Witness == m_self = OTHER_KEYS /\ m_line = 5 /\ m_column = 5 /\ m_key = NoEventIndicated

\* C10: a sweep in which every column read high at every sample leaves all
\* 36 slots at no-event, in every iteration.
C10_AllOpen ==
  (pc \in { "input_wait", "write" } /\ samples = {}) => keys_pressed = NoKeys

\* C10 witness: a second iteration's all-open sweep at write_report, after a
\* first report was made.
C10_Witness == pc = "write" /\ samples = {} /\ reports = 1 /\ closed = {} /\ steady

\* C11: a tick result other than Ok or WouldBlock, Duplicate included,
\* halts the program before the poll and read_report of that iteration and
\* for good; after Ok or WouldBlock the poll is next.
C11_FatalTickHalts ==
  /\ []((tick_result \notin { "None", "Ok", "WouldBlock" }) =>
          (pc = "halted" /\ ops = << "write_report", "tick" >>))
  /\ [][(pc = "tick" /\ pc' # "tick") =>
          \/ (tick_result' \in { "Ok", "WouldBlock" } /\ pc' = "poll")
          \/ (tick_result' \in { "Duplicate", "UsbError", "SerializationError" } /\ pc' = "halted")]_vars
  /\ [][(pc = "halted" /\ tick_result # "None") => (pc' = "halted" /\ UNCHANGED loopVars)]_vars

\* C11 witness: halted by a Duplicate from tick, the clock having gone on to
\* the next input boundary without another report.
C11_Witness ==
  /\ pc = "halted"
  /\ tick_result = "Duplicate"
  /\ reports = 1
  /\ input_elapsed = 2
  /\ input_flag

\* C12 as stated: neither a WouldBlock nor a Duplicate from tick halts.
C12_TickTransientBoth == (tick_result \in { "WouldBlock", "Duplicate" }) => pc # "halted"

\* C12 amended: a WouldBlock from tick is absorbed: the program is not
\* halted, the poll follows and the iteration ends at the top of the loop
\* with the scan state untouched by the tick; a Duplicate from tick is
\* fatal, unlike a Duplicate from write_report.
C12_TickWouldBlockOnly ==
  /\ [](tick_result = "WouldBlock" => pc \in { "poll", "read", "loop" })
  /\ [](tick_result = "Duplicate" => pc = "halted")
  /\ []((write_result = "Duplicate" /\ ops = << "write_report" >>) => pc \in { "tick_wait", "tick" })
  /\ [][(pc = "tick" /\ tick_result' = "WouldBlock") =>
          UNCHANGED << line_index, lines, keys_pressed, scanned, samples, timerVars >>]_vars

\* C12 witness: an iteration whose tick returned WouldBlock, back at the top
\* of the loop.
C12_Witness == pc = "loop" /\ tick_result = "WouldBlock" /\ ops # << >>

\* C13: read_report is called exactly in the iterations whose poll returned
\* true, and whatever it returns the program goes to the top of the loop
\* with lines, snapshot, scan position and timers untouched.
C13_ReadAfterPoll ==
  /\ [](read_result # "None" => poll_result = "true")
  /\ []((pc = "loop" /\ ops # << >>) =>
          /\ poll_result \in { "true", "false" }
          /\ (poll_result = "true" <=> ops = AllOps)
          /\ (poll_result = "true" <=> read_result \in ReadResults)
          /\ (poll_result = "false" <=> ops = << "write_report", "tick", "poll" >>))
  /\ [](pc = "read" <=> (poll_result = "true" /\ read_result = "None"))
  /\ [][(pc = "read" /\ pc' # "read") =>
          /\ pc' = "loop"
          /\ UNCHANGED << line_index, lines, keys_pressed, scanned, samples, timerVars >>]_vars

\* C13 witness: an iteration whose read_report failed with an error other
\* than WouldBlock, back at the top of the loop.
C13_Witness == pc = "loop" /\ poll_result = "true" /\ read_result = "ParseError"

LowLines == { l \in Lines : lines[l] = "low" }

\* C15: never more than one line is low; the columns are sampled while
\* exactly the scanned line is low; the timer waits after the sweep and all
\* transport calls happen with every line high.
C15_OneLineLow ==
  /\ Cardinality(LowLines) <= 1
  /\ (pc \in { "settle", "sample", "set_high" } => line_index \in Lines)
  /\ (pc = "sample" => LowLines = { line_index })
  /\ (pc \in { "input_wait", "write", "tick_wait", "tick", "poll", "read", "loop" } => LowLines = {})

\* C15 witness: line 3 about to be sampled with a closed switch on another
\* line.
C15_Witness ==
  /\ pc = "sample"
  /\ line_index = 3
  /\ lines[3] = "low"
  /\ closed = { << 2, 4 >> }

\* C14: the columns of a line are sampled only after a tick-timer boundary
\* has elapsed since that line was driven low; a boundary that elapsed
\* before the line was driven low does not let the sample go ahead.
C14_SettleDwell == [][(pc = "sample" /\ pc' # "sample") => dwelt]_vars

\* C17: in every state the snapshot is the one the low samples of the
\* current iteration stand for: slot column*6+line holds the table's key for
\* (line, column) if that sample was low and no-event otherwise, whatever
\* earlier iterations sampled and whatever the transport returned.
C17_SnapshotFromSamples == keys_pressed = SnapshotOf(samples)

\* C17 witness: the second report about to be made after a Duplicate, the
\* matrix having changed during the sweep that sampled (0, 0) low.
C17_Witness ==
  /\ pc = "write"
  /\ reports = 1
  /\ write_result = "Duplicate"
  /\ samples = { << 0, 0 >> }
  /\ ~steady

\* C18: an iteration waits on the tick timer once per swept line and once
\* more between write_report and tick, seven times in all, and on the input
\* timer once, after the sweep and before write_report.
C18_WaitCounts ==
  /\ (pc \in { "set_low", "settle" } => (tick_waits = Len(scanned) /\ input_waits = 0))
  /\ (pc \in { "sample", "set_high" } => (tick_waits = line_index + 1 /\ input_waits = 0))
  /\ (pc = "input_wait" => (tick_waits = 6 /\ input_waits = 0))
  /\ (pc \in { "write", "tick_wait" } => (tick_waits = 6 /\ input_waits = 1))
  /\ (pc \in { "tick", "poll", "read" } => (tick_waits = 7 /\ input_waits = 1))
  /\ ((pc = "loop" /\ ops # << >>) => (tick_waits = 7 /\ input_waits = 1))

\* C18 witness: a completed iteration with seven tick waits and one input
\* wait.
C18_Witness == pc = "loop" /\ ops = AllOps /\ tick_waits = 7 /\ input_waits = 1

\* Distinct positions have distinct slot indices.
SlotsDistinct ==
  \A l1 \in Lines, l2 \in Lines, c1 \in Cols, c2 \in Cols :
    slot(c1, l1) = slot(c2, l2) => (l1 = l2 /\ c1 = c2)

\* C20: the slot index of every sample lies in 0..35, distinct positions
\* have distinct slots, no slot is assigned twice in a sweep and after the
\* sweep every slot has been assigned exactly once.
C20_EachSlotOnce ==
  /\ \A i \in Slots : written[i] <= 1
  /\ (pc = "sample" => \A c \in Cols : slot(c, line_index) \in Slots)
  /\ \A l \in Lines : l \in { scanned[k] : k \in 1 .. Len(scanned) } =>
       \A c \in Cols : written[(c * 6) + l] = 1
  /\ (scanned = AllLines => \A i \in Slots : written[i] = 1)
  /\ SlotsDistinct

\* C20 witness: a full sweep with a key down, every slot assigned once.
C20_Witness ==
  /\ pc = "write"
  /\ samples = { << 2, 4 >> }
  /\ \A i \in Slots : written[i] = 1

\* C16: the program is halted only after a fatal result of write_report or
\* tick; as long as it is not halted it keeps coming back to the top of the
\* loop, and if it never halts write_report, tick and poll are each called
\* again and again.
C16_LoopForever ==
  /\ [](pc = "halted" =>
          \/ write_result \in { "UsbError", "SerializationError" }
          \/ tick_result \in { "Duplicate", "UsbError", "SerializationError" })
  /\ []<>(pc \in { "loop", "halted" })
  /\ ([](pc # "halted") =>
          /\ []<><<WriteReport>>_vars
          /\ []<><<Tick>>_vars
          /\ []<><<Poll>>_vars)

\* C16 witness: a later iteration at write_report, the previous report
\* having returned WouldBlock, with the clock wrapping.
C16_Witness ==
  /\ wrap
  /\ pc = "write"
  /\ write_result = "WouldBlock"
  /\ scanned = AllLines

\* C19: with a 500 us tick and a 10 ms input period and no compute time,
\* the six tick periods of a sweep's waits make 3 ms and the seven of an
\* iteration 3.5 ms, less than an input period;
\* every sweep is over within six tick periods of the input period it runs
\* in, every input boundary finds the program already waiting for it with
\* the previous one served, and one report is made per input boundary.
C19_ReportPerBoundary ==
  /\ [](pc = "input_wait" => tick_waits * TickMicros <= 3000)
  /\ [](pc = "tick" => (tick_waits * TickMicros <= 3500 /\ 3500 < InputMicros))
  /\ [][(pc = "set_high" /\ pc' = "input_wait") => (now % InputPeriodTicks) <= NumLines]_vars
  /\ [][input_elapsed' # input_elapsed =>
          (~input_flag /\ pc \in { "input_wait", "halted" })]_vars
  /\ []((pc \notin { "input_wait", "write", "halted" }) => reports = input_elapsed)
  /\ [](pc = "input_wait" => input_elapsed = reports + (IF input_flag THEN 1 ELSE 0))
  /\ [](pc = "write" => input_elapsed = reports + 1)

\* C19 witness: the second report made right at the second input boundary,
\* 39 tick periods after the start.
C19_Witness ==
  /\ reports = 2
  /\ input_elapsed = 2
  /\ now = 2 * InputPeriodTicks - 1
  /\ pc = "tick_wait"
====
